---- MODULE Spec2Model ----
(***************************************************************************)
(* Model of formatter.py: process_file (the extraction, classification and *)
(* formatting pass over a diagnostics blob) and the part of main that      *)
(* stages clipboard / literal / stdin input through temp_content.json.     *)
(*                                                                         *)
(* Text is modelled as sequences of tokens.  A path token is either a      *)
(* separator ("/" or "\\") or a run of non-separator characters; a message *)
(* token is either one of the two-character escapes the code rewrites or a *)
(* run of other characters.  The result of re.search on a block is a       *)
(* sequence of length 0 (None) or 1 (the captured group).                  *)
(***************************************************************************)
EXTENDS Integers, Sequences, FiniteSets, TLC

VARIABLES
    pc,             \* position of process_file: "open", "check", "scan", "done"
    text,           \* contents of the file named by the file_path argument
    content,        \* local `content` of process_file
    max_path_depth, \* argument of process_file
    min_severity,   \* argument of process_file
    matches,        \* what is left of the re.finditer iterator
    results,        \* local `results`
    counts,         \* local `counts`
    file_path,      \* local `file_path` (the argument, reassigned per block)
    warned,         \* whether the "doesn't appear to contain valid JSON" warning was printed
    \* two runs of main in one working directory
    input,          \* per run: the clipboard / literal / stdin content
    rpc,            \* per run: position in main
    temp,           \* the directory entry temp_content.json: NoFile or the file it names
    files,          \* per file: its contents
    fd,             \* per run: the file its open handle refers to, or NoFile
    out             \* per run: what process_file returned

pfvars == <<pc, text, content, max_path_depth, min_severity, matches, results,
            counts, file_path, warned>>

mainvars == <<input, rpc, temp, files, fd, out>>

vars == <<pfvars, mainvars>>

-----------------------------------------------------------------------------
(* Bounds *)

MaxBlocks == 3
MaxPathLen == 4
MaxSeverity == 12
MaxDepth == 2

SeqsUpTo(S, n) == UNION {[1..k -> S] : k \in 0..n}

-----------------------------------------------------------------------------
(* Path shortening, lines 81-85 *)

Sep == "/"
BackSlash == "\\"

\* str.replace('\\', '/')
RECURSIVE NormaliseSlashes(_)
NormaliseSlashes(s) ==
    IF s = <<>> THEN <<>>
    ELSE <<IF Head(s) = BackSlash THEN Sep ELSE Head(s)>> \o NormaliseSlashes(Tail(s))

\* str.split('/'): one more component than there are separators, components may be empty
RECURSIVE Split(_)
Split(s) ==
    IF s = <<>> THEN << <<>> >>
    ELSE LET rest == Split(Tail(s)) IN
         IF Head(s) = Sep THEN << <<>> >> \o rest
         ELSE << <<Head(s)>> \o Head(rest) >> \o Tail(rest)

\* '/'.join(parts), parts non-empty
RECURSIVE Join(_)
Join(parts) ==
    IF Len(parts) = 1 THEN parts[1]
    ELSE parts[1] \o <<Sep>> \o Join(Tail(parts))

\* parts[-n:] for 0 < n < len(parts)
LastN(parts, n) == SubSeq(parts, Len(parts) - n + 1, Len(parts))

\* variant: the backslashes are not normalised before the split
ShortenPathNoBackslash(resource, depth) ==
    LET path_parts == Split(resource) IN
    IF depth > 0 /\ Len(path_parts) > depth
    THEN Join(LastN(path_parts, depth))
    ELSE path_parts[Len(path_parts)]

ShortenPath(resource, depth) ==
    LET path_parts == Split(NormaliseSlashes(resource)) IN
    IF depth > 0 /\ Len(path_parts) > depth
    THEN Join(LastN(path_parts, depth))
    ELSE path_parts[Len(path_parts)]

-----------------------------------------------------------------------------
(* Classification, counting, formatting: lines 88-111 *)

ZeroCounts == [ERROR |-> 0, WARNING |-> 0, INFO |-> 0, TOTAL |-> 0]

\* line 88
SeverityOf(severity_match) ==
    IF severity_match # <<>> THEN severity_match[1] ELSE 0

\* variant: the ERROR threshold is exclusive
MsgTypeStrict(severity) ==
    IF severity > 8 THEN "ERROR" ELSE IF severity >= 4 THEN "WARNING" ELSE "INFO"

\* line 94
MsgType(severity) ==
    IF severity >= 8 THEN "ERROR" ELSE IF severity >= 4 THEN "WARNING" ELSE "INFO"

\* variant: TOTAL is not incremented
IncCountsNoTotal(c, msg_type) ==
    [c EXCEPT ![msg_type] = @ + 1]

\* lines 95-96
IncCounts(c, msg_type) ==
    [c EXCEPT ![msg_type] = @ + 1, !["TOTAL"] = @ + 1]

\* the two-character escapes of a message, and what lines 105-106 put for them
EscBacktick == "<backslash-backtick>"
Backtick == "<backtick>"
EscNewline == "<backslash-n>"
Space == " "

\* lines 105-106
RECURSIVE CleanMessage(_)
CleanMessage(m) ==
    IF m = <<>> THEN <<>>
    ELSE <<IF Head(m) = EscBacktick THEN Backtick
           ELSE IF Head(m) = EscNewline THEN Space
           ELSE Head(m)>> \o CleanMessage(Tail(m))

\* line 109: f"{msg_type} [{file_path}:{line}] {code}: {message}"
Compact(msg_type, path, line, code, message) ==
    <<msg_type, " [">> \o path \o <<":", line, "] ", code, ": ">> \o message

\* variant: the line is put in front
PrependLine(res, compact) == <<compact>> \o res

\* variant: a line already in the output is not added again
AppendLineOnce(res, compact) ==
    IF \E k \in 1..Len(res) : res[k] = compact THEN res ELSE Append(res, compact)

\* line 111
AppendLine(res, compact) == Append(res, compact)

\* line 79
HasRequired(block) == block.resource # <<>> /\ block.message # <<>>

\* variant: the filter also drops severity = min_severity
FilteredInclusive(severity, minsev) == severity <= minsev

\* line 91
Filtered(severity, minsev) == severity < minsev

\* variant: a block without its required fields is still counted, as INFO
ProcessBlockCountsSkipped(acc, block, depth, minsev) ==
    IF HasRequired(block)
    THEN LET path     == ShortenPath(block.resource[1], depth)
             severity == SeverityOf(block.severity)
         IN IF Filtered(severity, minsev)
            THEN [acc EXCEPT !.file_path = path]
            ELSE LET msg_type == MsgType(severity)
                     line     == IF block.line # <<>> THEN block.line[1] ELSE "?"
                     code     == IF block.code # <<>> THEN block.code[1] ELSE ""
                     message  == CleanMessage(block.message[1])
                 IN [file_path |-> path,
                     counts    |-> IncCounts(acc.counts, msg_type),
                     results   |-> AppendLine(acc.results,
                                       Compact(msg_type, path, line, code, message))]
    ELSE [acc EXCEPT !.counts = IncCounts(acc.counts, "INFO")]

\* One iteration of the for loop, lines 69-111, on the locals it updates.
ProcessBlock(acc, block, depth, minsev) ==
    IF HasRequired(block)
    THEN LET path     == ShortenPath(block.resource[1], depth)
             severity == SeverityOf(block.severity)
         IN IF Filtered(severity, minsev)
            THEN [acc EXCEPT !.file_path = path]
            ELSE LET msg_type == MsgType(severity)
                     line     == IF block.line # <<>> THEN block.line[1] ELSE "?"
                     code     == IF block.code # <<>> THEN block.code[1] ELSE ""
                     message  == CleanMessage(block.message[1])
                 IN [file_path |-> path,
                     counts    |-> IncCounts(acc.counts, msg_type),
                     results   |-> AppendLine(acc.results,
                                       Compact(msg_type, path, line, code, message))]
    ELSE acc

-----------------------------------------------------------------------------
(* The JSON validity pre-check, lines 24-42.  A text is a layout around its  *)
(* diagnostic blocks; the blocks themselves are well-formed objects.         *)
(*   "array"     [b1,b2,...]        one JSON value                           *)
(*   "commas"    b1,b2,...          a fragment: values separated by commas   *)
(*   "lines"     b1 \n b2 \n ...    one value per line                       *)
(*   "truncated" b1,b2,...,{"res    cut off in the middle of an object       *)

Layouts == {"array", "commas", "lines", "truncated"}

\* json.loads(content)
StrictJson(c) ==
    \/ c.layout = "array"
    \/ c.layout \in {"commas", "lines"} /\ Len(c.blocks) = 1

\* json.loads(f"[{content}]")
WrappedJson(c) ==
    \/ c.layout = "array"
    \/ c.layout = "commas"
    \/ c.layout = "lines" /\ Len(c.blocks) <= 1

\* every non-blank line parses
LinesJson(c) ==
    \/ c.layout = "array"
    \/ c.layout = "lines"
    \/ c.layout = "commas" /\ Len(c.blocks) <= 1

is_valid_json(c) ==
    IF StrictJson(c) THEN TRUE
    ELSE IF WrappedJson(c) THEN TRUE
    ELSE IF LinesJson(c) THEN TRUE
    ELSE FALSE

\* variant: extraction only from a text the pre-check accepts
FindBlocksIfValid(c) == IF is_valid_json(c) THEN c.blocks ELSE <<>>

\* re.finditer(pattern, content, re.DOTALL): the blocks, left to right
FindBlocks(c) == c.blocks

-----------------------------------------------------------------------------
(* Inputs *)

X == <<"/", "a", "/", "b", "/", "c.ts">>
Y == <<"C:", "\\", "src", "\\", "y.ts">>

PathAlphabet == {"a", "/", "\\"}
Paths == (SeqsUpTo(PathAlphabet, MaxPathLen) \ {<<>>}) \cup {X, Y}

Messages == {<<"oops">>, <<"use ", EscBacktick, "x", EscBacktick, EscNewline, "here">>}

Opt(S) == {<<>>} \cup {<<v>> : v \in S}

\* blocks of the multi-block texts: one severity per category on one path, a
\* second path, a block without message and a block without resource
CoreBlocks ==
    [resource : {<<X>>}, severity : {<<3>>, <<5>>, <<9>>},
     message : {<< <<"oops">> >>}, code : {<<"TS2304">>}, line : {<<"42">>}]
    \cup
    {[resource |-> <<Y>>, severity |-> <<5>>, message |-> << <<"oops">> >>,
      code |-> <<>>, line |-> <<>>],
     [resource |-> <<X>>, severity |-> <<9>>, message |-> <<>>,
      code |-> <<"TS2304">>, line |-> <<"42">>],
     [resource |-> <<>>, severity |-> <<9>>, message |-> << <<"oops">> >>,
      code |-> <<"TS2304">>, line |-> <<"42">>]}

\* blocks of the one-block texts: every path, every severity, every
\* combination of present and absent fields
FieldBlocks ==
    [resource : Opt(Paths), severity : {<<9>>},
     message : {<< <<"oops">> >>}, code : {<<>>}, line : {<<>>}]
    \cup
    [resource : Opt({X}), severity : Opt(0..MaxSeverity),
     message : Opt(Messages), code : Opt({"TS2304"}), line : Opt({"42"})]

Texts ==
    [layout : Layouts, blocks : SeqsUpTo(CoreBlocks, MaxBlocks)]
    \cup [layout : Layouts, blocks : {<<b>> : b \in FieldBlocks}]

Depths == -1..MaxDepth
MinSeverities == {0, 5}

InputPath == <<"input.json">>
NoContent == [layout |-> "array", blocks |-> <<>>]

-----------------------------------------------------------------------------
(* process_file *)

Runs == {"A", "B"}
NoFile == "none"
EmptyText == [layout |-> "commas", blocks |-> <<>>]
NoResult == [results |-> <<>>, counts |-> ZeroCounts]

MainIdle ==
    /\ input = [r \in Runs |-> EmptyText]
    /\ rpc = [r \in Runs |-> "idle"]
    /\ temp = NoFile
    /\ files = [r \in Runs |-> EmptyText]
    /\ fd = [r \in Runs |-> NoFile]
    /\ out = [r \in Runs |-> NoResult]

Init ==
    /\ pc = "open"
    /\ text \in Texts
    /\ max_path_depth \in Depths
    /\ min_severity \in MinSeverities
    /\ content = NoContent
    /\ matches = <<>>
    /\ results = <<>>
    /\ counts = ZeroCounts
    /\ file_path = InputPath
    /\ warned = FALSE
    /\ MainIdle

\* lines 46-48
ReadFile ==
    /\ pc = "open"
    /\ content' = text
    /\ pc' = "check"
    /\ UNCHANGED <<text, max_path_depth, min_severity, matches, results, counts,
                   file_path, warned, mainvars>>

\* lines 58-67
CheckAndStartScan ==
    /\ pc = "check"
    /\ warned' = ~is_valid_json(content)
    /\ results' = <<>>
    /\ counts' = ZeroCounts
    /\ matches' = FindBlocks(content)
    /\ pc' = "scan"
    /\ UNCHANGED <<text, content, max_path_depth, min_severity, file_path, mainvars>>

\* lines 69-111, one iteration
HandleMatch ==
    /\ pc = "scan"
    /\ matches # <<>>
    /\ LET acc == ProcessBlock([file_path |-> file_path, counts |-> counts,
                                results |-> results],
                               Head(matches), max_path_depth, min_severity)
       IN /\ file_path' = acc.file_path
          /\ counts' = acc.counts
          /\ results' = acc.results
    /\ matches' = Tail(matches)
    /\ UNCHANGED <<pc, text, content, max_path_depth, min_severity, warned, mainvars>>

\* line 113
Return ==
    /\ pc = "scan"
    /\ matches = <<>>
    /\ pc' = "done"
    /\ UNCHANGED <<text, content, max_path_depth, min_severity, matches, results,
                   counts, file_path, warned, mainvars>>

Next == ReadFile \/ CheckAndStartScan \/ HandleMatch \/ Return

Spec == Init /\ [][Next]_vars

\* process_file from the read to the return, lines 48-113, as one step
RECURSIVE ScanAll(_, _, _, _)
ScanAll(acc, blocks, depth, minsev) ==
    IF blocks = <<>> THEN acc
    ELSE ScanAll(ProcessBlock(acc, Head(blocks), depth, minsev), Tail(blocks),
                 depth, minsev)

ProcessContent(c, depth, minsev) ==
    LET acc == ScanAll([file_path |-> InputPath, counts |-> ZeroCounts,
                        results |-> <<>>], FindBlocks(c), depth, minsev)
    IN [results |-> acc.results, counts |-> acc.counts]

-----------------------------------------------------------------------------
(* main: two runs staging their input through temp_content.json,           *)
(* lines 192-259.  The three staging branches (clipboard, literal argument, *)
(* stdin) are the same code, so a run is modelled once; an exception of    *)
(* process_file ends the run in the handler of lines 214-216 or 297-301.   *)

DefaultPathDepth == 1
DefaultMinSeverity == 0

RunTexts ==
    {[layout |-> "array", blocks |-> bs] :
        bs \in {<<b>> : b \in CoreBlocks} \cup {<<>>}}

MainInit ==
    /\ pc = "idle"
    /\ text = NoContent
    /\ max_path_depth = DefaultPathDepth
    /\ min_severity = DefaultMinSeverity
    /\ content = NoContent
    /\ matches = <<>>
    /\ results = <<>>
    /\ counts = ZeroCounts
    /\ file_path = InputPath
    /\ warned = FALSE
    /\ input \in [Runs -> RunTexts]
    /\ rpc = [r \in Runs |-> "start"]
    /\ temp = NoFile
    /\ files = [r \in Runs |-> EmptyText]
    /\ fd = [r \in Runs |-> NoFile]
    /\ out = [r \in Runs |-> NoResult]

\* open(temp_file, 'w'), lines 201 / 229 / 248: creates the file or truncates it
OpenTemp(r) ==
    /\ rpc[r] = "start"
    /\ LET f == IF temp = NoFile THEN r ELSE temp IN
       /\ temp' = f
       /\ files' = [files EXCEPT ![f] = EmptyText]
       /\ fd' = [fd EXCEPT ![r] = f]
    /\ rpc' = [rpc EXCEPT ![r] = "opened"]
    /\ UNCHANGED <<pfvars, input, out>>

\* f.write(content) and the close that flushes it, lines 202 / 230 / 249
WriteTemp(r) ==
    /\ rpc[r] = "opened"
    /\ files' = [files EXCEPT ![fd[r]] = input[r]]
    /\ fd' = [fd EXCEPT ![r] = NoFile]
    /\ rpc' = [rpc EXCEPT ![r] = "staged"]
    /\ UNCHANGED <<pfvars, input, temp, out>>

\* process_file's open(file_path, 'r'), line 47; FileNotFoundError is not caught
\* in process_file and ends the run in main's handler (lines 214-216, 297-301)
OpenForRead(r) ==
    /\ rpc[r] = "staged"
    /\ IF temp = NoFile
       THEN /\ rpc' = [rpc EXCEPT ![r] = "failed"]
            /\ UNCHANGED fd
       ELSE /\ rpc' = [rpc EXCEPT ![r] = "reading"]
            /\ fd' = [fd EXCEPT ![r] = temp]
    /\ UNCHANGED <<pfvars, input, temp, files, out>>

\* f.read() and the rest of process_file, lines 48-113
ReadAndProcess(r) ==
    /\ rpc[r] = "reading"
    /\ out' = [out EXCEPT ![r] =
                  ProcessContent(files[fd[r]], max_path_depth, min_severity)]
    /\ fd' = [fd EXCEPT ![r] = NoFile]
    /\ rpc' = [rpc EXCEPT ![r] = "processed"]
    /\ UNCHANGED <<pfvars, input, temp, files>>

\* os.remove(temp_file) under a bare except, lines 208-212 / 236-240 / 255-259
RemoveTemp(r) ==
    /\ rpc[r] = "processed"
    /\ temp' = NoFile
    /\ rpc' = [rpc EXCEPT ![r] = "done"]
    /\ UNCHANGED <<pfvars, input, files, fd, out>>

MainNext ==
    \E r \in Runs :
        \/ OpenTemp(r)
        \/ WriteTemp(r)
        \/ OpenForRead(r)
        \/ ReadAndProcess(r)
        \/ RemoveTemp(r)

MainSpec == MainInit /\ [][MainNext]_vars

-----------------------------------------------------------------------------
(* Properties of process_file *)

Categories == {"ERROR", "WARNING", "INFO"}

\* the blocks the loop has handled so far
Consumed ==
    IF pc \in {"scan", "done"}
    THEN SubSeq(content.blocks, 1, Len(content.blocks) - Len(matches))
    ELSE <<>>

BothFields(b) == b.resource # <<>> /\ b.message # <<>>
SevValue(b) == IF b.severity = <<>> THEN 0 ELSE b.severity[1]
Qualifies(b) == BothFields(b) /\ SevValue(b) >= min_severity
ByThresholds(sev) ==
    IF sev >= 8 THEN "ERROR"
    ELSE IF 4 <= sev /\ sev < 8 THEN "WARNING"
    ELSE "INFO"

\* the blocks handled so far that qualify for output, in text order
Emitted == SelectSeq(Consumed, Qualifies)

\* C1: TOTAL == ERROR + WARNING + INFO in every state of process_file: zeroed,
\* after each handled block, and in the returned counts.
C1_CountsSum ==
    counts.TOTAL = counts.ERROR + counts.WARNING + counts.INFO

C1_Witness ==
    /\ pc = "done"
    /\ Len(content.blocks) = 3
    /\ counts.ERROR = 1 /\ counts.INFO = 1 /\ counts.TOTAL = 2

\* C2: the category that prefixes each line is given by the severity of its
\* block through the thresholds (>= 8 ERROR, 4..7 WARNING, else INFO, absent
\* severity = 0), and each category's count is the number of lines with that
\* prefix.
C2_CategoryBySeverity ==
    /\ Len(results) = Len(Emitted)
    /\ \A k \in 1..Len(results) :
          k <= Len(Emitted) => results[k][1] = ByThresholds(SevValue(Emitted[k]))
    /\ \A c \in Categories :
          counts[c] = Cardinality({k \in 1..Len(results) : results[k][1] = c})

C2_Witness ==
    /\ pc = "done"
    /\ Len(content.blocks) = 1
    /\ content.blocks[1].severity = <<12>>
    /\ Len(results) = 1
    /\ results[1][1] = "ERROR"
    /\ counts.ERROR = 1

\* C3: handling a block that has both required fields leaves lines and counts
\* untouched when its severity is below min_severity, and otherwise adds
\* exactly one line and one to its category and to TOTAL.
C3_Step ==
    (pc = "scan" /\ matches # <<>> /\ BothFields(Head(matches))) =>
        LET sev == SevValue(Head(matches))
            cat == ByThresholds(sev)
        IN IF sev < min_severity
           THEN results' = results /\ counts' = counts
           ELSE /\ Len(results') = Len(results) + 1
                /\ SubSeq(results', 1, Len(results)) = results
                /\ counts' = [counts EXCEPT ![cat] = @ + 1, !.TOTAL = @ + 1]

C3_SeverityFilter == [][C3_Step]_vars

C3_Witness ==
    /\ pc = "done"
    /\ min_severity = 5
    /\ Len(content.blocks) = 2
    /\ BothFields(content.blocks[1]) /\ content.blocks[1].severity = <<3>>
    /\ BothFields(content.blocks[2]) /\ content.blocks[2].severity = <<5>>
    /\ Len(results) = 1
    /\ counts.WARNING = 1 /\ counts.TOTAL = 1

\* C4: handling a block without a resource or without a message adds no line,
\* changes no count, and the scan goes on with the next block.
C4_Step ==
    (pc = "scan" /\ matches # <<>> /\ ~BothFields(Head(matches))) =>
        /\ results' = results
        /\ counts' = counts
        /\ pc' = "scan"
        /\ matches' = Tail(matches)

C4_SkipIncomplete == [][C4_Step]_vars

C4_Witness ==
    /\ pc = "done"
    /\ Len(content.blocks) = 3
    /\ content.blocks[1].message = <<>> /\ content.blocks[1].resource # <<>>
    /\ content.blocks[2].resource = <<>> /\ content.blocks[2].message # <<>>
    /\ Qualifies(content.blocks[3])
    /\ Len(results) = 1
    /\ counts.TOTAL = 1

\* the line of a qualifying block
LineOf(b) ==
    Compact(ByThresholds(SevValue(b)),
            ShortenPath(b.resource[1], max_path_depth),
            IF b.line = <<>> THEN "?" ELSE b.line[1],
            IF b.code = <<>> THEN "" ELSE b.code[1],
            CleanMessage(b.message[1]))

\* C5: the lines are those of the qualifying blocks in the order of the text,
\* duplicates included, and a step only ever appends to them.
C5_InTextOrder ==
    /\ Len(results) = Len(Emitted)
    /\ \A k \in 1..Len(results) :
          k <= Len(Emitted) => results[k] = LineOf(Emitted[k])

C5_AppendOnly ==
    pc = "scan" =>
        /\ Len(results') >= Len(results)
        /\ SubSeq(results', 1, Len(results)) = results

C5_Ordering == []C5_InTextOrder /\ [][C5_AppendOnly]_vars

C5_Witness ==
    /\ pc = "done"
    /\ Len(content.blocks) = 3
    /\ content.blocks[1].resource = <<X>>
    /\ content.blocks[2].resource = <<Y>>
    /\ content.blocks[3] = content.blocks[1]
    /\ Len(results) = 3
    /\ results[1] = results[3]
    /\ results[1] # results[2]

\* the resource with every separator written "/"
Slashed(r) == [k \in 1..Len(r) |-> IF r[k] \in {"/", "\\"} THEN "/" ELSE r[k]]
SepsUpTo(r, k) == Cardinality({i \in 1..k : Slashed(r)[i] = "/"})
Components(r) == 1 + SepsUpTo(r, Len(r))

\* the last n components of r, 1 <= n <= Components(r), joined by "/"
Trailing(r, n) ==
    LET skip  == Components(r) - n
        start == IF skip = 0 THEN 1
                 ELSE 1 + CHOOSE k \in 1..Len(r) :
                              Slashed(r)[k] = "/" /\ SepsUpTo(r, k) = skip
    IN SubSeq(Slashed(r), start, Len(r))

\* the block handled last has both fields, so file_path is its displayed path
PathShown ==
    /\ Consumed # <<>>
    /\ BothFields(Consumed[Len(Consumed)])

LastResource == Consumed[Len(Consumed)].resource[1]

C7_DepthIsTrailingCount ==
    (PathShown /\ max_path_depth >= 1
               /\ Components(LastResource) >= max_path_depth) =>
        file_path = Trailing(LastResource, max_path_depth)

C10_LinesEqualTotal ==
    /\ Len(results) = counts.TOTAL
    /\ (pc = "done" /\ \A k \in 1..Len(text.blocks) : ~Qualifies(text.blocks[k])) =>
          results = <<>> /\ counts = ZeroCounts

C10_Witness ==
    /\ pc = "done"
    /\ Len(text.blocks) = 3
    /\ Len(results) = 2
    /\ counts.TOTAL = 2
    /\ results[1] = results[2]

-----------------------------------------------------------------------------
(* Property of two concurrent runs of main *)

\* C9: no run fails, and every run that got a result from process_file got
\* the lines and counts of its own input.
C9_RunsIndependent ==
    \A r \in Runs :
        /\ rpc[r] # "failed"
        /\ rpc[r] \in {"processed", "done"} =>
              out[r] = ProcessContent(input[r], max_path_depth, min_severity)

====
